---------------------------- MODULE Spec2Model ----------------------------
(***************************************************************************)
(* A model of bytesutil: the endian-aware scalar codec (src/bytes.rs), the *)
(* ByteBuf view (src/buffer.rs), ReadFill (src/traits.rs) and Combine      *)
(* (src/combined_io.rs).                                                   *)
(*                                                                         *)
(* Values.  The integers of the model checker are 32 bits wide, so a value *)
(* of a kind is held in one of three ways:                                 *)
(*   - i8 u8 i16 u16 i32: the mathematical integer itself;                 *)
(*   - u32 i64 u64 i128 u128 f32 f64: the bit pattern of the value (the    *)
(*     two's-complement pattern of an integer, the IEEE-754 pattern of a   *)
(*     float, which is what f32::to_bits yields), as a sequence of 16-bit  *)
(*     limbs, the most significant limb first;                             *)
(*   - bool: a BOOLEAN.                                                    *)
(***************************************************************************)
EXTENDS Integers, Sequences, FiniteSets, TLC

VARIABLES
  bytes,    \* codec: the slice handed to write_bytes_* / read_bytes_*
  prior,    \* codec: the slice as it was before the last call
  written,  \* codec: the kind, order and value of the last write_bytes_*
  rd,       \* codec: the kind, order and outcome of the last read_bytes_*
  cpc,      \* codec: "fresh", "written", "read" or "panic"
  inner,    \* ByteBuf: the bytes of the wrapped storage (ByteBuf::inner)
  start,    \* ByteBuf: the storage as it was handed to ByteBuf::new
  before,   \* ByteBuf: the storage as it was before the last call
  call,     \* ByteBuf: the last call and its arguments
  outcome,  \* ByteBuf: "none", "ok" or "panic" (of the last call)
  ret,      \* ByteBuf: what the last call returned
  hist,     \* ByteBuf: the set calls that returned, in call order
  stream,   \* read_fill: the bytes the reader delivers until end of stream
  rpos,     \* read_fill: how many bytes of the stream the reader has given
  buf,      \* read_fill: the buffer to fill (the argument buf)
  len,      \* read_fill: the local len
  nbytes,   \* read_fill: the local bytes
  reads,    \* read_fill: the number of read calls made
  fpc,      \* read_fill: "start", "loop", "done" or "err"
  reader,   \* Combine: the reader end, its length and position
  writer,   \* Combine: the writer end, its length and position
  clog,     \* Combine: the calls made on the Combine
  rlog,     \* Combine: the calls the reader end received
  wlog,     \* Combine: the calls the writer end received
  cret,     \* Combine: what the last call returned
  src,      \* stream codec: the bytes the reader holds (read_from_*)
  sink,     \* stream codec: the writer, its bytes and the room it has left
  scall     \* stream codec: the last read_from_* / write_to_* and its outcome

codecVars == <<bytes, prior, written, rd, cpc>>

bufVars == <<inner, start, before, call, outcome, ret, hist>>

fillVars == <<stream, rpos, buf, len, nbytes, reads, fpc>>

combineVars == <<reader, writer, clog, rlog, wlog, cret>>

streamVars == <<src, sink, scall>>

\* ------------------------------------------------------------------------
\* Bounds of the model.
\* ------------------------------------------------------------------------

\* Longest slice handed to write_bytes_* / read_bytes_* (u128 needs 16).
MaxBufLen == 17

\* Longest storage wrapped in a ByteBuf that receives a single call.
MaxLen == 17

\* Length of the storage wrapped in a ByteBuf that receives a chain of calls.
ChainLen == 4

\* Most set calls made on one ByteBuf.
MaxChain == 2

\* Longest stream a reader delivers to read_fill.
MaxStream == 4

\* Longest buffer handed to read_fill.
MaxFillBuf == 3

\* Longest reader or writer end of a Combine, as it is created.
MaxEndLen == 2

\* Most calls made on one Combine.
MaxOps == 3

\* ------------------------------------------------------------------------
\* The kinds of impl_bytes! and bool.
\* ------------------------------------------------------------------------

\* The number of values of a u8.
ByteRange == 256

Byte == 0 .. (ByteRange - 1)

IntKinds == {"i8", "u8", "i16", "u16", "i32"}

BitKinds == {"u32", "i64", "u64", "i128", "u128", "f32", "f64"}

\* The types impl_bytes! is instantiated for.
MacroKinds == IntKinds \cup BitKinds

Kinds == MacroKinds \cup {"bool"}

Signed(k) == k \in {"i8", "i16", "i32"}

Orders == {"le", "be"}

\* $size of impl_bytes!(i8: 1 u8: 1 i16: 2 ...).
Size(k) ==
  CASE k \in {"i8", "u8"} -> 1
    [] k \in {"i16", "u16"} -> 2
    [] k \in {"i32", "u32", "f32"} -> 4
    [] k \in {"i64", "u64", "f64"} -> 8
    [] k \in {"i128", "u128"} -> 16

\* The number of bytes a kind occupies: bool is written and read as a u8.
Width(k) == IF k = "bool" THEN Size("u8") ELSE Size(k)

Limbs(k) == Size(k) \div 2

\* ------------------------------------------------------------------------
\* to_le_bytes / to_be_bytes / from_le_bytes / from_be_bytes of the
\* primitive types (the standard library's conversions impl_bytes! calls).
\* ------------------------------------------------------------------------

\* Byte j (0 = least significant) of the two's-complement pattern of v.
ByteOf(k, v, j) ==
  IF k \in IntKinds
    THEN (v \div (ByteRange ^ j)) % ByteRange
    ELSE LET limb == v[Limbs(k) - (j \div 2)]
         IN  IF j % 2 = 0 THEN limb % ByteRange ELSE limb \div ByteRange

\* to_le_bytes with the bytes in big-endian order.
to_le_bytes_msb_first(k, v) ==
  [i \in 1 .. Size(k) |-> ByteOf(k, v, Size(k) - i)]

to_le_bytes(k, v) == [i \in 1 .. Size(k) |-> ByteOf(k, v, i - 1)]

to_be_bytes(k, v) == [i \in 1 .. Size(k) |-> ByteOf(k, v, Size(k) - i)]

RECURSIVE SumBytes(_, _)
\* The integer whose little-endian digits in base 256 are b[1..n]; the top
\* digit of a signed kind has already been made negative by the caller.
SumBytes(b, n) ==
  IF n = 0 THEN 0 ELSE b[n] * (ByteRange ^ (n - 1)) + SumBytes(b, n - 1)

\* The value of kind k whose pattern has b[j+1] as byte j (0 = least
\* significant).
FromPattern(k, b) ==
  IF k \in IntKinds
    THEN LET n == Size(k)
             top == IF Signed(k) /\ b[n] >= ByteRange \div 2
                      THEN b[n] - ByteRange ELSE b[n]
         IN  SumBytes([i \in 1 .. n |-> IF i = n THEN top ELSE b[i]], n)
    ELSE [l \in 1 .. Limbs(k) |->
            LET lo == 2 * (Limbs(k) - l) + 1
            IN  b[lo + 1] * ByteRange + b[lo]]

from_le_bytes(k, block) == FromPattern(k, block)

\* from_be_bytes that takes the block in little-endian order.
from_be_bytes_unswapped(k, block) == FromPattern(k, block)

from_be_bytes(k, block) ==
  FromPattern(k, [i \in 1 .. Size(k) |-> block[Size(k) + 1 - i]])

\* ------------------------------------------------------------------------
\* Outcomes of a call that may panic.  A panicking write carries the slice
\* as the unwinding leaves it.
\* ------------------------------------------------------------------------

Panicked(b) == [panic |-> TRUE, bytes |-> b]

Wrote(b) == [panic |-> FALSE, bytes |-> b]

ReadPanic == [panic |-> TRUE, val |-> 0]

ReadOk(v) == [panic |-> FALSE, val |-> v]

\* ------------------------------------------------------------------------
\* impl_bytes!: WriteBytes and ReadBytes of the primitive kinds.
\* ------------------------------------------------------------------------

\* copy_to_prefix that copies the bytes that fit instead of panicking.
copy_to_prefix_clamped(bytes_, size, block) ==
  Wrote([i \in 1 .. Len(bytes_) |-> IF i <= size THEN block[i] ELSE bytes_[i]])

\* copy_to_prefix that copies the bytes that fit and then panics.
copy_to_prefix_partial(bytes_, size, block) ==
  IF size > Len(bytes_)
    THEN Panicked([i \in 1 .. Len(bytes_) |-> block[i]])
    ELSE Wrote([i \in 1 .. Len(bytes_) |->
                  IF i <= size THEN block[i] ELSE bytes_[i]])

\* copy_to_prefix that clears the slice behind the block.
copy_to_prefix_zero_rest(bytes_, size, block) ==
  IF size > Len(bytes_)
    THEN Panicked(bytes_)
    ELSE Wrote([i \in 1 .. Len(bytes_) |-> IF i <= size THEN block[i] ELSE 0])

\* bytes[..$size].copy_from_slice(&block): the range check of the slice
\* index comes first and panics before any byte is copied.
copy_to_prefix(bytes_, size, block) ==
  IF size > Len(bytes_)
    THEN Panicked(bytes_)
    ELSE Wrote([i \in 1 .. Len(bytes_) |->
                  IF i <= size THEN block[i] ELSE bytes_[i]])

impl_write_bytes_le(k, v, bytes_) ==
  LET block == to_le_bytes(k, v) IN copy_to_prefix(bytes_, Size(k), block)

impl_write_bytes_be(k, v, bytes_) ==
  LET block == to_be_bytes(k, v) IN copy_to_prefix(bytes_, Size(k), block)

\* bytes[..$size].try_into().unwrap(): the slice index panics on a short
\* slice; the conversion of exactly $size bytes to an array cannot fail.
impl_read_bytes_le(k, bytes_) ==
  IF Size(k) > Len(bytes_)
    THEN ReadPanic
    ELSE ReadOk(from_le_bytes(k, SubSeq(bytes_, 1, Size(k))))

impl_read_bytes_be(k, bytes_) ==
  IF Size(k) > Len(bytes_)
    THEN ReadPanic
    ELSE ReadOk(from_be_bytes(k, SubSeq(bytes_, 1, Size(k))))

\* ------------------------------------------------------------------------
\* WriteBytes and ReadBytes of bool.
\* ------------------------------------------------------------------------

bool_write_bytes_le(v, bytes_) ==
  CASE v = TRUE -> impl_write_bytes_le("u8", 1, bytes_)
    [] v = FALSE -> impl_write_bytes_le("u8", 0, bytes_)

bool_write_bytes_be(v, bytes_) ==
  CASE v = TRUE -> impl_write_bytes_be("u8", 1, bytes_)
    [] v = FALSE -> impl_write_bytes_be("u8", 0, bytes_)

\* bool_read_bytes_le that takes only the byte 1 for true.
bool_read_bytes_le_strict(bytes_) ==
  LET r == impl_read_bytes_le("u8", bytes_)
  IN  IF r.panic THEN ReadPanic ELSE ReadOk(r.val = 1)

\* match u8::read_bytes_le(bytes) { 0 => false, _ => true }
bool_read_bytes_le(bytes_) ==
  LET r == impl_read_bytes_le("u8", bytes_)
  IN  IF r.panic THEN ReadPanic ELSE ReadOk(r.val # 0)

bool_read_bytes_be(bytes_) ==
  LET r == impl_read_bytes_be("u8", bytes_)
  IN  IF r.panic THEN ReadPanic ELSE ReadOk(r.val # 0)

\* ------------------------------------------------------------------------
\* The trait methods, dispatched on the kind.
\* ------------------------------------------------------------------------

write_bytes_le(k, v, bytes_) ==
  IF k = "bool" THEN bool_write_bytes_le(v, bytes_)
                ELSE impl_write_bytes_le(k, v, bytes_)

write_bytes_be(k, v, bytes_) ==
  IF k = "bool" THEN bool_write_bytes_be(v, bytes_)
                ELSE impl_write_bytes_be(k, v, bytes_)

read_bytes_le(k, bytes_) ==
  IF k = "bool" THEN bool_read_bytes_le(bytes_)
                ELSE impl_read_bytes_le(k, bytes_)

read_bytes_be(k, bytes_) ==
  IF k = "bool" THEN bool_read_bytes_be(bytes_)
                ELSE impl_read_bytes_be(k, bytes_)

\* ------------------------------------------------------------------------
\* Inputs: the values written, per kind (zero, the extremes, NaN and the
\* infinities, and values whose bytes are all different).
\* ------------------------------------------------------------------------

Samples(k) ==
  CASE k = "i8"   -> {-128, 42, 127}
    [] k = "u8"   -> {0, 42, 255}
    [] k = "i16"  -> {-32768, -2, 258}
    [] k = "u16"  -> {0, 258, 65535}
    [] k = "i32"  -> {-2147483647 - 1, 42, 16909060}
    [] k = "u32"  -> {<<0, 42>>, <<258, 772>>, <<65535, 65535>>}
    [] k = "f32"  -> {<<16937, 44564>>, <<32704, 0>>, <<65408, 0>>}
    [] k = "i64"  -> {<<32768, 0, 0, 0>>, <<0, 0, 0, 42>>,
                      <<258, 772, 1286, 1800>>}
    [] k = "u64"  -> {<<0, 0, 0, 0>>, <<258, 772, 1286, 1800>>,
                      <<65535, 65535, 65535, 65535>>}
    [] k = "f64"  -> {<<16453, 13762, 36700, 10486>>, <<32760, 0, 0, 0>>,
                      <<32752, 0, 0, 0>>}
    [] k = "i128" -> {<<32768, 0, 0, 0, 0, 0, 0, 0>>,
                      <<0, 0, 0, 0, 0, 0, 0, 42>>,
                      <<258, 772, 1286, 1800, 2314, 2828, 3342, 3856>>}
    [] k = "u128" -> {<<0, 0, 0, 0, 0, 0, 0, 0>>,
                      <<258, 772, 1286, 1800, 2314, 2828, 3342, 3856>>,
                      <<65535, 65535, 65535, 65535,
                        65535, 65535, 65535, 65535>>}
    [] k = "bool" -> {TRUE, FALSE}

\* A slice of n bytes counting up from b.
Fill(n, b) == [i \in 1 .. n |-> (b + i - 1) % ByteRange]

\* The first bytes of the slices the codec is given.
Seeds == {0, 170}

InitSlices ==
  {Fill(n, b) : n \in 0 .. MaxBufLen, b \in Seeds} \cup {<<b>> : b \in Byte}

\* ------------------------------------------------------------------------
\* The codec on a slice: one write_bytes_* and the read_bytes_* calls after
\* or instead of it.  A panic ends the run.
\* ------------------------------------------------------------------------

NoWrite == [kind |-> "none", order |-> "none", val |-> 0]

NoRead == [kind |-> "none", order |-> "none", panic |-> FALSE, val |-> 0]

InitCodecVars ==
  /\ bytes \in InitSlices
  /\ prior = bytes
  /\ written = NoWrite
  /\ rd = NoRead
  /\ cpc = "fresh"

\* No slice is in use: the state of the codec while another part runs.
InitCodecIdle ==
  /\ bytes = <<>>
  /\ prior = <<>>
  /\ written = NoWrite
  /\ rd = NoRead
  /\ cpc = "idle"

WriteBytes(k, v, order, r) ==
  /\ cpc = "fresh"
  /\ prior' = bytes
  /\ bytes' = r.bytes
  /\ written' = [kind |-> k, order |-> order, val |-> v]
  /\ cpc' = IF r.panic THEN "panic" ELSE "written"
  /\ UNCHANGED rd

WriteBytesLe ==
  \E k \in Kinds : \E v \in Samples(k) :
    WriteBytes(k, v, "le", write_bytes_le(k, v, bytes))

WriteBytesBe ==
  \E k \in Kinds : \E v \in Samples(k) :
    WriteBytes(k, v, "be", write_bytes_be(k, v, bytes))

ReadBytes(k, order, r) ==
  /\ cpc \in {"fresh", "written"}
  /\ rd' = [kind |-> k, order |-> order, panic |-> r.panic, val |-> r.val]
  /\ cpc' = IF r.panic THEN "panic" ELSE "read"
  /\ UNCHANGED <<bytes, prior, written>>

ReadBytesLe == \E k \in Kinds : ReadBytes(k, "le", read_bytes_le(k, bytes))

ReadBytesBe == \E k \in Kinds : ReadBytes(k, "be", read_bytes_be(k, bytes))

\* ------------------------------------------------------------------------
\* ByteBuf (src/buffer.rs).
\* ------------------------------------------------------------------------

\* &self.inner.as_ref()[pos..] then V::read_bytes_le: the range index
\* panics when pos is past the end.
get_le(inner_, pos, k) ==
  IF pos > Len(inner_)
    THEN ReadPanic
    ELSE read_bytes_le(k, SubSeq(inner_, pos + 1, Len(inner_)))

get_be(inner_, pos, k) ==
  IF pos > Len(inner_)
    THEN ReadPanic
    ELSE read_bytes_be(k, SubSeq(inner_, pos + 1, Len(inner_)))

\* set_le that writes at the start of the storage, whatever pos is.
set_le_from_start(inner_, pos, k, v) ==
  IF pos > Len(inner_) THEN Panicked(inner_) ELSE write_bytes_le(k, v, inner_)

\* set_be that applies to a copy of the storage.
set_be_on_copy(inner_, pos, k, v) ==
  IF pos > Len(inner_)
    THEN Panicked(inner_)
    ELSE LET r == write_bytes_be(k, v, SubSeq(inner_, pos + 1, Len(inner_)))
         IN  [panic |-> r.panic, bytes |-> inner_]

\* value.write_bytes_le(&mut self.inner.as_mut()[pos..]): the sub-slice is
\* a view of inner, so what is written to it lands in inner from pos on.
set_le(inner_, pos, k, v) ==
  IF pos > Len(inner_)
    THEN Panicked(inner_)
    ELSE LET r == write_bytes_le(k, v, SubSeq(inner_, pos + 1, Len(inner_)))
         IN  [panic |-> r.panic, bytes |-> SubSeq(inner_, 1, pos) \o r.bytes]

set_be(inner_, pos, k, v) ==
  IF pos > Len(inner_)
    THEN Panicked(inner_)
    ELSE LET r == write_bytes_be(k, v, SubSeq(inner_, pos + 1, Len(inner_)))
         IN  [panic |-> r.panic, bytes |-> SubSeq(inner_, 1, pos) \o r.bytes]

\* into_inner that hands back a fresh storage of the same length.
into_inner_default(inner_) == [j \in 1 .. Len(inner_) |-> 0]

\* ByteBuf::into_inner(self): self.inner
into_inner(inner_) == inner_

\* What set_le / set_be return: the `self` they were called on.
SelfRef == [ref |-> "self"]

NoRet == [ref |-> "none"]

Value(v) == [ref |-> "value", val |-> v]

Zeroed(n) == [i \in 1 .. n |-> 0]

NoCall == [op |-> "none", order |-> "none", pos |-> 0, kind |-> "none",
           val |-> 0, chained |-> FALSE]

\* ByteBuf::new(storage): the view of a storage, before any call.
New(storage) ==
  /\ inner = storage
  /\ start = storage
  /\ before = storage
  /\ call = NoCall
  /\ outcome = "none"
  /\ ret = NoRet
  /\ hist = <<>>

\* No ByteBuf exists: the state of the view while another part runs.
InitBufIdle ==
  /\ inner = <<>>
  /\ start = <<>>
  /\ before = <<>>
  /\ call = NoCall
  /\ outcome = "idle"
  /\ ret = NoRet
  /\ hist = <<>>

\* One set call that produced r: a panic unwinds, otherwise the call
\* returns self.
Set(order, pos, k, v, chained, r) ==
  /\ outcome \in {"none", "ok"}
  /\ before' = inner
  /\ inner' = r.bytes
  /\ call' = [op |-> "set", order |-> order, pos |-> pos, kind |-> k,
              val |-> v, chained |-> chained]
  /\ outcome' = IF r.panic THEN "panic" ELSE "ok"
  /\ ret' = IF r.panic THEN NoRet ELSE SelfRef
  /\ hist' = IF r.panic
               THEN hist
               ELSE Append(hist, [order |-> order, pos |-> pos, kind |-> k,
                                  val |-> v])
  /\ UNCHANGED start

\* One get call that produced r.
Get(order, pos, k, r) ==
  /\ outcome \in {"none", "ok"}
  /\ before' = inner
  /\ call' = [op |-> "get", order |-> order, pos |-> pos, kind |-> k,
              val |-> 0, chained |-> FALSE]
  /\ outcome' = IF r.panic THEN "panic" ELSE "ok"
  /\ ret' = IF r.panic THEN NoRet ELSE Value(r.val)
  /\ UNCHANGED <<inner, start, hist>>

\* ---- One call on a fresh view, of every kind, at every offset. ----

\* The storages wrapped: zero-filled (as in the tests) and non-zero.
InitStorages == {Zeroed(n) : n \in 0 .. MaxLen} \cup
                {Fill(n, 161) : n \in 0 .. MaxLen}

\* The offsets passed: every offset in the storage, its length and one past.
Positions == 0 .. (MaxLen + 1)

InitBufVars == \E storage \in InitStorages : New(storage)

SetLe ==
  /\ call.op = "none"
  /\ \E pos \in Positions, k \in Kinds : \E v \in Samples(k) :
       Set("le", pos, k, v, FALSE, set_le(inner, pos, k, v))

SetBe ==
  /\ call.op = "none"
  /\ \E pos \in Positions, k \in Kinds : \E v \in Samples(k) :
       Set("be", pos, k, v, FALSE, set_be(inner, pos, k, v))

GetLe ==
  /\ call.op = "none"
  /\ \E pos \in Positions, k \in Kinds :
       Get("le", pos, k, get_le(inner, pos, k))

GetBe ==
  /\ call.op = "none"
  /\ \E pos \in Positions, k \in Kinds :
       Get("be", pos, k, get_be(inner, pos, k))

\* ---- Several set calls on one view, as statements or chained through ----
\* ---- the returned reference, and a get at the offset of one of them. ----

ChainKinds == {"bool", "i16", "i32"}

ChainSamples(k) ==
  CASE k = "bool" -> {TRUE, FALSE}
    [] k = "i16"  -> {-2, 258}
    [] k = "i32"  -> {42, 16909060}

ChainPositions == 0 .. (ChainLen + 1)

\* The storages the statements start from: the zero-filled one of the
\* crate's tests and one whose bytes all differ.
ChainStorages == {Zeroed(ChainLen), [j \in 1 .. ChainLen |-> 200 + j]}

InitChainVars == \E storage \in ChainStorages : New(storage)

\* buffer.set_le(pos, value); as a statement of its own.
StmtSetLe ==
  /\ call.op # "get"
  /\ Len(hist) < MaxChain
  /\ \E pos \in ChainPositions, k \in ChainKinds : \E v \in ChainSamples(k) :
       Set("le", pos, k, v, FALSE, set_le(inner, pos, k, v))

StmtSetBe ==
  /\ call.op # "get"
  /\ Len(hist) < MaxChain
  /\ \E pos \in ChainPositions, k \in ChainKinds : \E v \in ChainSamples(k) :
       Set("be", pos, k, v, FALSE, set_be(inner, pos, k, v))

\* ... .set_le(pos, value): called on the reference the previous set
\* returned, which is the ByteBuf itself.
ChainSetLe ==
  /\ ret = SelfRef
  /\ Len(hist) < MaxChain
  /\ \E pos \in ChainPositions, k \in ChainKinds : \E v \in ChainSamples(k) :
       Set("le", pos, k, v, TRUE, set_le(inner, pos, k, v))

ChainSetBe ==
  /\ ret = SelfRef
  /\ Len(hist) < MaxChain
  /\ \E pos \in ChainPositions, k \in ChainKinds : \E v \in ChainSamples(k) :
       Set("be", pos, k, v, TRUE, set_be(inner, pos, k, v))

\* buffer.into_inner(): consumes the view, whatever set calls it has seen,
\* and returns the storage; no call can follow it.
IntoInner ==
  /\ outcome \in {"none", "ok"}
  /\ call.op # "get"
  /\ before' = inner
  /\ call' = [op |-> "into_inner", order |-> "none", pos |-> 0,
              kind |-> "none", val |-> 0, chained |-> FALSE]
  /\ outcome' = "consumed"
  /\ ret' = Value(into_inner(inner))
  /\ UNCHANGED <<inner, start, hist>>

\* buffer.get_le::<V>(pos) after the set calls, at the offset, of the kind
\* and in the order of one of them.
LaterGetLe ==
  /\ call.op = "set"
  /\ \E n \in 1 .. Len(hist) :
       /\ hist[n].order = "le"
       /\ Get("le", hist[n].pos, hist[n].kind,
              get_le(inner, hist[n].pos, hist[n].kind))

LaterGetBe ==
  /\ call.op = "set"
  /\ \E n \in 1 .. Len(hist) :
       /\ hist[n].order = "be"
       /\ Get("be", hist[n].pos, hist[n].kind,
              get_be(inner, hist[n].pos, hist[n].kind))

\* ------------------------------------------------------------------------
\* ReadFill::read_fill (src/traits.rs), one read call at a time.
\* ------------------------------------------------------------------------

Min(a, b) == IF a < b THEN a ELSE b

\* What Read::read may return for a destination of m bytes: 0 for an empty
\* destination or at end of stream, otherwise any count from 1 up to what
\* fits and is left (a reader may give less than was asked for).
ReadCounts(m) ==
  IF m = 0 \/ rpos = Len(stream)
    THEN {0}
    ELSE 1 .. Min(m, Len(stream) - rpos)

\* buf after a read of n bytes into &mut buf[off..].
ReadInto(off, n) ==
  [i \in 1 .. Len(buf) |->
     IF off < i /\ i <= off + n THEN stream[rpos + (i - off)] ELSE buf[i]]

InitFillVars ==
  /\ stream \in {Fill(n, 1) : n \in 0 .. MaxStream}
  /\ buf \in {Zeroed(m) : m \in 0 .. MaxFillBuf}
  /\ rpos = 0
  /\ len = 0
  /\ nbytes = 0
  /\ reads = 0
  /\ fpc = "start"

InitFillIdle ==
  /\ stream = <<>>
  /\ buf = <<>>
  /\ rpos = 0
  /\ len = 0
  /\ nbytes = 0
  /\ reads = 0
  /\ fpc = "idle"

\* let mut bytes = 0; let mut len = self.read(buf)?; bytes += len;
FirstRead ==
  /\ fpc = "start"
  /\ \E n \in ReadCounts(Len(buf)) :
       /\ buf' = ReadInto(0, n)
       /\ rpos' = rpos + n
       /\ len' = n
       /\ nbytes' = 0 + n
  /\ reads' = reads + 1
  /\ fpc' = "loop"
  /\ UNCHANGED stream

\* The loop condition: len > 0 && buf.len() - len > 0.
LoopCondition == len > 0 /\ Len(buf) - len > 0

\* len = self.read(&mut buf[len..])?; bytes += len;
LoopRead ==
  /\ fpc = "loop"
  /\ LoopCondition
  /\ \E n \in ReadCounts(Len(buf) - len) :
       /\ buf' = ReadInto(len, n)
       /\ rpos' = rpos + n
       /\ len' = n
       /\ nbytes' = nbytes + n
  /\ reads' = reads + 1
  /\ fpc' = "loop"
  /\ UNCHANGED stream

\* self.read(..)? with a read that fails: read_fill returns the error.
ReadError ==
  /\ fpc = "start" \/ (fpc = "loop" /\ LoopCondition)
  /\ reads' = reads + 1
  /\ fpc' = "err"
  /\ UNCHANGED <<stream, rpos, buf, len, nbytes>>

\* Ok(bytes)
Return ==
  /\ fpc = "loop"
  /\ ~LoopCondition
  /\ fpc' = "done"
  /\ UNCHANGED <<stream, rpos, buf, len, nbytes, reads>>

\* ------------------------------------------------------------------------
\* Combine (src/combined_io.rs) over two in-memory ends.
\* ------------------------------------------------------------------------

End(n) == [len |-> n, pos |-> 0]

Failed == [ok |-> FALSE, val |-> 0]

Returned(v) == [ok |-> TRUE, val |-> v]

\* SeekFrom::Start(n), SeekFrom::Current(d), SeekFrom::End(d).
SeekFroms ==
  [whence : {"Start"}, off : 0 .. MaxEndLen] \cup
  [whence : {"Current"}, off : -1 .. 1] \cup
  [whence : {"End"}, off : -1 .. 0]

\* The position an end is asked to move to.
SeekTarget(e, from) ==
  CASE from.whence = "Start" -> from.off
    [] from.whence = "Current" -> e.pos + from.off
    [] from.whence = "End" -> e.len + from.off

\* Seek::seek of an end: a position before the start is an error and
\* leaves the end where it is.
EndSeek(e, from) ==
  IF SeekTarget(e, from) < 0
    THEN [ok |-> FALSE, end |-> e, val |-> 0]
    ELSE [ok |-> TRUE, end |-> [e EXCEPT !.pos = SeekTarget(e, from)],
          val |-> SeekTarget(e, from)]

\* The bytes an end has left to read.
Remaining(e) == IF e.pos >= e.len THEN 0 ELSE e.len - e.pos

\* An end after n bytes have been written at its position.
EndWrite(e, n) ==
  [len |-> IF e.pos + n > e.len THEN e.pos + n ELSE e.len, pos |-> e.pos + n]

InitCombineVars ==
  /\ reader \in {End(n) : n \in 0 .. MaxEndLen}
  /\ writer \in {End(n) : n \in 0 .. MaxEndLen}
  /\ clog = <<>>
  /\ rlog = <<>>
  /\ wlog = <<>>
  /\ cret = Returned(0)

InitCombineIdle ==
  /\ reader = End(0)
  /\ writer = End(0)
  /\ clog = <<>>
  /\ rlog = <<>>
  /\ wlog = <<>>
  /\ cret = Failed

\* A call on the Combine is made and logged, with whether the end it went
\* to first returned Ok.
Called(op, ok) ==
  Len(clog) < MaxOps /\ clog' = Append(clog, [op |-> op, ok |-> ok])

\* self.reader.read(buf)
CombineRead ==
  /\ Called("read", TRUE)
  /\ \E n \in 1 .. 2 :
       /\ reader' = [reader EXCEPT !.pos = reader.pos + Min(n, Remaining(reader))]
       /\ cret' = Returned(Min(n, Remaining(reader)))
  /\ rlog' = Append(rlog, "read")
  /\ UNCHANGED <<writer, wlog>>

\* self.reader.read_to_end(buf)
CombineReadToEnd ==
  /\ Called("read_to_end", TRUE)
  /\ reader' = [reader EXCEPT !.pos = reader.pos + Remaining(reader)]
  /\ cret' = Returned(Remaining(reader))
  /\ rlog' = Append(rlog, "read_to_end")
  /\ UNCHANGED <<writer, wlog>>

\* self.writer.write(buf)
CombineWrite ==
  /\ Called("write", TRUE)
  /\ \E n \in 1 .. 2 :
       /\ writer' = EndWrite(writer, n)
       /\ cret' = Returned(n)
  /\ wlog' = Append(wlog, "write")
  /\ UNCHANGED <<reader, rlog>>

\* self.writer.write_all(buf)
CombineWriteAll ==
  /\ Called("write_all", TRUE)
  /\ \E n \in 1 .. 2 : writer' = EndWrite(writer, n)
  /\ cret' = Returned(0)
  /\ wlog' = Append(wlog, "write_all")
  /\ UNCHANGED <<reader, rlog>>

\* self.writer.flush()
CombineFlush ==
  /\ Called("flush", TRUE)
  /\ cret' = Returned(0)
  /\ wlog' = Append(wlog, "flush")
  /\ UNCHANGED <<reader, writer, rlog>>

\* self.reader.seek(pos)?; self.writer.seek(pos)
CombineSeek ==
  \E from \in SeekFroms :
       LET r == EndSeek(reader, from)
           w == EndSeek(writer, from)
       IN  /\ Called("seek", r.ok)
           /\ reader' = r.end
           /\ rlog' = Append(rlog, "seek")
           /\ IF r.ok
                THEN /\ writer' = w.end
                     /\ wlog' = Append(wlog, "seek")
                     /\ cret' = [ok |-> w.ok, val |-> w.val]
                ELSE /\ UNCHANGED <<writer, wlog>>
                     /\ cret' = Failed

\* self.reader.rewind()?; self.writer.rewind()
CombineRewind ==
  /\ Called("rewind", TRUE)
  /\ reader' = [reader EXCEPT !.pos = 0]
  /\ rlog' = Append(rlog, "rewind")
  /\ writer' = [writer EXCEPT !.pos = 0]
  /\ wlog' = Append(wlog, "rewind")
  /\ cret' = Returned(0)

\* self.reader.stream_position()
CombineStreamPosition ==
  /\ Called("stream_position", TRUE)
  /\ rlog' = Append(rlog, "stream_position")
  /\ cret' = Returned(reader.pos)
  /\ UNCHANGED <<reader, writer, wlog>>

\* ------------------------------------------------------------------------
\* WriteTo and ReadFrom (src/bytes.rs): the codec on a reader and a writer.
\* ------------------------------------------------------------------------

IoError == [ok |-> FALSE, val |-> 0]

IoOk(v) == [ok |-> TRUE, val |-> v]

\* Read::read_exact(&mut block) on a reader holding src_: the first
\* Len(block) bytes, or an error (UnexpectedEof) when the reader has fewer.
read_exact(src_, size) ==
  IF Len(src_) < size THEN IoError ELSE IoOk(SubSeq(src_, 1, size))

\* Write::write_all(&block) on a writer with room for sink_.room more
\* bytes: all of the block, or what fits and an error (WriteZero).
write_all(sink_, block) ==
  IF Len(block) <= sink_.room
    THEN [ok |-> TRUE,
          sink |-> [data |-> sink_.data \o block,
                    room |-> sink_.room - Len(block)]]
    ELSE [ok |-> FALSE,
          sink |-> [data |-> sink_.data \o SubSeq(block, 1, sink_.room),
                    room |-> 0]]

\* let block = (*self).to_le_bytes(); dst.write_all(&block)?; Ok(())
impl_write_to_le(k, v, dst) == write_all(dst, to_le_bytes(k, v))

impl_write_to_be(k, v, dst) == write_all(dst, to_be_bytes(k, v))

\* impl_read_from_be that assembles the block in little-endian order.
impl_read_from_be_as_le(k, src_) ==
  LET block == read_exact(src_, Size(k))
  IN  IF block.ok THEN IoOk(from_le_bytes(k, block.val)) ELSE IoError

\* let mut block = [0; $size]; src.read_exact(&mut block)?;
\* Ok(<$t>::from_le_bytes(block))
impl_read_from_le(k, src_) ==
  LET block == read_exact(src_, Size(k))
  IN  IF block.ok THEN IoOk(from_le_bytes(k, block.val)) ELSE IoError

impl_read_from_be(k, src_) ==
  LET block == read_exact(src_, Size(k))
  IN  IF block.ok THEN IoOk(from_be_bytes(k, block.val)) ELSE IoError

\* WriteExt::write_le / write_be: val.write_to_le(self) / val.write_to_be(self).
write_le(dst, k, val) == impl_write_to_le(k, val, dst)

write_be(dst, k, val) == impl_write_to_be(k, val, dst)

\* match self { true => dst.write_le(1 as u8), false => dst.write_le(0 as u8) }
bool_write_to_le(v, dst) ==
  CASE v = TRUE -> write_le(dst, "u8", 1)
    [] v = FALSE -> write_le(dst, "u8", 0)

bool_write_to_be(v, dst) ==
  CASE v = TRUE -> write_be(dst, "u8", 1)
    [] v = FALSE -> write_be(dst, "u8", 0)

\* Ok(match u8::read_from_le(src)? { 0 => false, _ => true })
bool_read_from_le(src_) ==
  LET r == impl_read_from_le("u8", src_)
  IN  IF r.ok THEN IoOk(r.val # 0) ELSE IoError

bool_read_from_be(src_) ==
  LET r == impl_read_from_be("u8", src_)
  IN  IF r.ok THEN IoOk(r.val # 0) ELSE IoError

write_to_le(k, v, dst) ==
  IF k = "bool" THEN bool_write_to_le(v, dst) ELSE impl_write_to_le(k, v, dst)

write_to_be(k, v, dst) ==
  IF k = "bool" THEN bool_write_to_be(v, dst) ELSE impl_write_to_be(k, v, dst)

read_from_le(k, src_) ==
  IF k = "bool" THEN bool_read_from_le(src_) ELSE impl_read_from_le(k, src_)

read_from_be(k, src_) ==
  IF k = "bool" THEN bool_read_from_be(src_) ELSE impl_read_from_be(k, src_)

\* A writer that accepts room more bytes and has been given none yet.
Sink(room) == [data |-> <<>>, room |-> room]

NoStreamCall == [op |-> "none", kind |-> "none", order |-> "none",
                 ok |-> FALSE, val |-> 0]

InitStreamVars ==
  /\ src \in InitSlices
  /\ sink \in {Sink(room) : room \in 0 .. MaxBufLen}
  /\ scall = NoStreamCall

InitStreamIdle ==
  /\ src = <<>>
  /\ sink = Sink(0)
  /\ scall = NoStreamCall

\* One read_from_* call on the reader, which returned r.
ReadFrom(k, order, r) ==
  /\ scall.op = "none"
  /\ scall' = [op |-> "read_from", kind |-> k, order |-> order,
               ok |-> r.ok, val |-> r.val]
  /\ UNCHANGED <<src, sink>>

ReadFromLe == \E k \in Kinds : ReadFrom(k, "le", read_from_le(k, src))

ReadFromBe == \E k \in Kinds : ReadFrom(k, "be", read_from_be(k, src))

\* One write_to_* call on the writer, which returned r.
WriteTo(k, v, order, r) ==
  /\ scall.op = "none"
  /\ sink' = r.sink
  /\ scall' = [op |-> "write_to", kind |-> k, order |-> order,
               ok |-> r.ok, val |-> v]
  /\ UNCHANGED src

WriteToLe ==
  \E k \in Kinds : \E v \in Samples(k) :
    WriteTo(k, v, "le", write_to_le(k, v, sink))

WriteToBe ==
  \E k \in Kinds : \E v \in Samples(k) :
    WriteTo(k, v, "be", write_to_be(k, v, sink))

vars == <<codecVars, bufVars, fillVars, combineVars, streamVars>>

\* ------------------------------------------------------------------------
\* The specifications: each part of the library runs on its own.
\* ------------------------------------------------------------------------

InitCodec ==
  InitCodecVars /\ InitBufIdle /\ InitFillIdle /\ InitCombineIdle /\ InitStreamIdle

NextCodec ==
  \/ WriteBytesLe /\ UNCHANGED <<bufVars, fillVars, combineVars, streamVars>>
  \/ WriteBytesBe /\ UNCHANGED <<bufVars, fillVars, combineVars, streamVars>>
  \/ ReadBytesLe /\ UNCHANGED <<bufVars, fillVars, combineVars, streamVars>>
  \/ ReadBytesBe /\ UNCHANGED <<bufVars, fillVars, combineVars, streamVars>>

SpecCodec == InitCodec /\ [][NextCodec]_vars

InitBuf ==
  InitBufVars /\ InitCodecIdle /\ InitFillIdle /\ InitCombineIdle /\ InitStreamIdle

NextBuf ==
  \/ SetLe /\ UNCHANGED <<codecVars, fillVars, combineVars, streamVars>>
  \/ SetBe /\ UNCHANGED <<codecVars, fillVars, combineVars, streamVars>>
  \/ GetLe /\ UNCHANGED <<codecVars, fillVars, combineVars, streamVars>>
  \/ GetBe /\ UNCHANGED <<codecVars, fillVars, combineVars, streamVars>>

SpecBuf == InitBuf /\ [][NextBuf]_vars

InitChain ==
  InitChainVars /\ InitCodecIdle /\ InitFillIdle /\ InitCombineIdle /\ InitStreamIdle

NextChain ==
  \/ StmtSetLe /\ UNCHANGED <<codecVars, fillVars, combineVars, streamVars>>
  \/ StmtSetBe /\ UNCHANGED <<codecVars, fillVars, combineVars, streamVars>>
  \/ ChainSetLe /\ UNCHANGED <<codecVars, fillVars, combineVars, streamVars>>
  \/ ChainSetBe /\ UNCHANGED <<codecVars, fillVars, combineVars, streamVars>>
  \/ LaterGetLe /\ UNCHANGED <<codecVars, fillVars, combineVars, streamVars>>
  \/ LaterGetBe /\ UNCHANGED <<codecVars, fillVars, combineVars, streamVars>>
  \/ IntoInner /\ UNCHANGED <<codecVars, fillVars, combineVars, streamVars>>

SpecChain == InitChain /\ [][NextChain]_vars

InitFill ==
  InitFillVars /\ InitCodecIdle /\ InitBufIdle /\ InitCombineIdle /\ InitStreamIdle

NextFill ==
  \/ FirstRead /\ UNCHANGED <<codecVars, bufVars, combineVars, streamVars>>
  \/ LoopRead /\ UNCHANGED <<codecVars, bufVars, combineVars, streamVars>>
  \/ ReadError /\ UNCHANGED <<codecVars, bufVars, combineVars, streamVars>>
  \/ Return /\ UNCHANGED <<codecVars, bufVars, combineVars, streamVars>>

SpecFill == InitFill /\ [][NextFill]_vars

InitCombine ==
  InitCombineVars /\ InitCodecIdle /\ InitBufIdle /\ InitFillIdle /\ InitStreamIdle

NextCombine ==
  \/ CombineRead /\ UNCHANGED <<codecVars, bufVars, fillVars, streamVars>>
  \/ CombineReadToEnd /\ UNCHANGED <<codecVars, bufVars, fillVars, streamVars>>
  \/ CombineWrite /\ UNCHANGED <<codecVars, bufVars, fillVars, streamVars>>
  \/ CombineWriteAll /\ UNCHANGED <<codecVars, bufVars, fillVars, streamVars>>
  \/ CombineFlush /\ UNCHANGED <<codecVars, bufVars, fillVars, streamVars>>
  \/ CombineSeek /\ UNCHANGED <<codecVars, bufVars, fillVars, streamVars>>
  \/ CombineRewind /\ UNCHANGED <<codecVars, bufVars, fillVars, streamVars>>
  \/ CombineStreamPosition /\ UNCHANGED <<codecVars, bufVars, fillVars, streamVars>>

SpecCombine == InitCombine /\ [][NextCombine]_vars

InitStream ==
  InitStreamVars /\ InitCodecIdle /\ InitBufIdle /\ InitFillIdle /\ InitCombineIdle

NextStream ==
  \/ ReadFromLe /\ UNCHANGED <<codecVars, bufVars, fillVars, combineVars>>
  \/ ReadFromBe /\ UNCHANGED <<codecVars, bufVars, fillVars, combineVars>>
  \/ WriteToLe /\ UNCHANGED <<codecVars, bufVars, fillVars, combineVars>>
  \/ WriteToBe /\ UNCHANGED <<codecVars, bufVars, fillVars, combineVars>>

SpecStream == InitStream /\ [][NextStream]_vars

\* ------------------------------------------------------------------------
\* The codec (SpecCodec).
\* ------------------------------------------------------------------------

\* C1: a value written with write_bytes_le (write_bytes_be) into a slice of
\* at least the width of its kind and read back with read_bytes_le
\* (read_bytes_be) of the same kind is returned exactly.
RoundTrip ==
  (/\ cpc = "read"
   /\ written.kind # "none"
   /\ rd.kind = written.kind
   /\ rd.order = written.order)
    => (~rd.panic /\ rd.val = written.val)

\* The smallest i128 has been written big-endian and read back.
RoundTripWitness ==
  /\ cpc = "read"
  /\ written.kind = "i128"
  /\ written.order = "be"
  /\ rd.kind = "i128"
  /\ rd.order = "be"
  /\ written.val[1] = 32768
  /\ bytes[1] = 128

IntegerKinds == MacroKinds \ {"f32", "f64"}

\* The least and the most significant byte of an integer value, from its
\* two's-complement pattern.
LeastByte(k, v) ==
  IF k \in IntKinds
    THEN IF v < 0 THEN (v + ByteRange * ByteRange * ByteRange) % ByteRange
                  ELSE v % ByteRange
    ELSE v[Limbs(k)] % ByteRange

MostByte(k, v) ==
  IF k \in IntKinds
    THEN CASE v < 0 -> ByteRange - 1 - ((-(v + 1)) \div (ByteRange ^ (Size(k) - 1)))
           [] v >= 0 -> v \div (ByteRange ^ (Size(k) - 1))
    ELSE v[1] \div ByteRange

Reversed(b) == [i \in 1 .. Len(b) |-> b[Len(b) + 1 - i]]

\* C6: write_bytes_le stores the least significant byte of an integer's
\* two's-complement pattern first, write_bytes_be the most significant one;
\* byte i of one encoding is byte W-1-i of the other, so the two differ
\* whenever the bytes are not their own reversal; i32 42 is [42,0,0,0]
\* little-endian and [0,0,0,42] big-endian.
ByteLayout ==
  (cpc = "written" /\ written.kind \in IntegerKinds) =>
    LET k == written.kind
        v == written.val
        W == Size(k)
        enc == SubSeq(bytes, 1, W)
        other == IF written.order = "le" THEN to_be_bytes(k, v)
                                          ELSE to_le_bytes(k, v)
    IN  /\ written.order = "le" => enc[1] = LeastByte(k, v) /\ enc[W] = MostByte(k, v)
        /\ written.order = "be" => enc[1] = MostByte(k, v) /\ enc[W] = LeastByte(k, v)
        /\ \A i \in 1 .. W : enc[i] = other[W + 1 - i]
        /\ enc # Reversed(enc) => enc # other
        /\ (k = "i32" /\ v = 42 /\ written.order = "le") => enc = <<42, 0, 0, 0>>
        /\ (k = "i32" /\ v = 42 /\ written.order = "be") => enc = <<0, 0, 0, 42>>
        /\ (k = "i16" /\ v = -2 /\ written.order = "le") => enc = <<254, 255>>

\* A negative i16 has been written little-endian.
ByteLayoutWitness ==
  /\ cpc = "written"
  /\ written.kind = "i16"
  /\ written.order = "le"
  /\ written.val = -2
  /\ bytes[1] = 254

\* C7: in both orders, writing a bool stores exactly one byte, 1 for true
\* and 0 for false; reading a bool from a non-empty slice never panics and
\* returns false exactly when the byte read is 0.
BoolMapping ==
  /\ (cpc = "written" /\ written.kind = "bool") =>
       /\ Len(bytes) = Len(prior)
       /\ bytes[1] = (IF written.val THEN 1 ELSE 0)
       /\ \A i \in 2 .. Len(bytes) : bytes[i] = prior[i]
  /\ (rd.kind = "bool" /\ Len(bytes) > 0) =>
       /\ ~rd.panic
       /\ cpc = "read"
       /\ (rd.val = FALSE) <=> (bytes[1] = 0)

\* The byte 255 has been read as a bool, big-endian.
BoolMappingWitness ==
  /\ cpc = "read"
  /\ rd.kind = "bool"
  /\ rd.order = "be"
  /\ written.kind = "none"
  /\ bytes[1] = 255
  /\ rd.val = TRUE

\* ------------------------------------------------------------------------
\* One call on a ByteBuf (SpecBuf).
\* ------------------------------------------------------------------------

\* C2: a get or a set of a kind of width W at an offset p with p + W past
\* the length of the storage (p at the length and beyond it included)
\* panics: it returns no value and completes no write.
BoundaryFault ==
  (call.op # "none" /\ call.pos + Width(call.kind) > Len(before)) =>
    (outcome = "panic" /\ ret = NoRet)

\* A bool has been set at the very end of a non-empty storage.
BoundaryFaultWitness ==
  /\ call.op = "set"
  /\ call.kind = "bool"
  /\ Len(before) > 0
  /\ call.pos = Len(before)
  /\ outcome = "panic"

\* C3: a set of a value of width W at offset k that returns changes only
\* the bytes in [k, k+W): every other byte and the length are as before.
OffsetIndependence ==
  (call.op = "set" /\ outcome = "ok") =>
    /\ Len(inner) = Len(before)
    /\ \A i \in 1 .. Len(before) :
         (i <= call.pos \/ i > call.pos + Width(call.kind))
           => inner[i] = before[i]

\* An f64 has been set inside a storage, with bytes on both sides of it.
OffsetIndependenceWitness ==
  /\ call.op = "set"
  /\ outcome = "ok"
  /\ call.kind = "f64"
  /\ call.pos > 0
  /\ call.pos + Width(call.kind) < Len(inner)
  /\ inner # before

\* C4: a set that panics because offset + width is past the length of the
\* storage has modified no byte of it.
NeverPartialWrites ==
  (call.op = "set" /\ outcome = "panic") => inner = before

\* A set has panicked with some, but not all, of its bytes in the storage.
NeverPartialWritesWitness ==
  /\ call.op = "set"
  /\ outcome = "panic"
  /\ call.pos < Len(before)
  /\ call.pos + Width(call.kind) > Len(before)
  /\ Width(call.kind) > 1

GetOf(order, storage, q, k) ==
  IF order = "le" THEN get_le(storage, q, k) ELSE get_be(storage, q, k)

\* C5 as stated: a set at offset p does not change what a get at any other
\* offset q returns, p and q both in bounds for their kinds.
DistinctOffsetsNeverInterfere ==
  (call.op = "set" /\ outcome = "ok") =>
    \A q \in Positions, k \in Kinds, order \in Orders :
      (q # call.pos /\ q + Width(k) <= Len(inner))
        => GetOf(order, inner, q, k) = GetOf(order, before, q, k)

\* C5 as amended: a set of width W at offset p does not change what a get
\* of width V at offset q returns when [p, p+W) and [q, q+V) do not
\* overlap, p and q both in bounds for their kinds.
DisjointAccessesNeverInterfere ==
  (call.op = "set" /\ outcome = "ok") =>
    \A q \in Positions, k \in Kinds, order \in Orders :
      (/\ q + Width(k) <= Len(inner)
       /\ (q + Width(k) <= call.pos \/ call.pos + Width(call.kind) <= q))
        => GetOf(order, inner, q, k) = GetOf(order, before, q, k)

\* A set has changed the storage, and there is room for a get next to it.
DisjointAccessesWitness ==
  /\ call.op = "set"
  /\ outcome = "ok"
  /\ inner # before
  /\ call.kind = "i32"
  /\ call.pos >= Width("i64")
  /\ call.pos + Width(call.kind) + Width("i16") <= Len(inner)

\* ------------------------------------------------------------------------
\* Several calls on a ByteBuf (SpecChain).
\* ------------------------------------------------------------------------

\* The bytes a recorded set call stores.
EncodingOf(c) ==
  CASE c.kind = "bool" -> <<IF c.val THEN 1 ELSE 0>>
    [] c.kind # "bool" /\ c.order = "le" -> to_le_bytes(c.kind, c.val)
    [] c.kind # "bool" /\ c.order = "be" -> to_be_bytes(c.kind, c.val)

\* The set calls whose region [pos, pos+W) holds the byte at index j.
Covering(j) ==
  {n \in 1 .. Len(hist) :
     hist[n].pos < j /\ j <= hist[n].pos + Width(hist[n].kind)}

Latest(S) == CHOOSE n \in S : \A m \in S : m <= n

\* The byte at index j after the recorded calls, made one by one in call
\* order: that of the latest call that wrote it.
ByteAfterStatements(j) ==
  IF Covering(j) = {}
    THEN start[j]
    ELSE LET c == hist[Latest(Covering(j))] IN EncodingOf(c)[j - c.pos]

Overlap(c, d) ==
  c.pos < d.pos + Width(d.kind) /\ d.pos < c.pos + Width(c.kind)

\* C8: set calls, chained through the returned reference or not, leave the
\* storage as the same calls made one by one in call order leave it: a byte
\* two regions share holds the encoding of the later call, and a later get
\* at the offset of a call whose region no other call overlaps returns the
\* value of that call.
Chaining ==
  /\ Len(inner) = Len(start)
  /\ \A j \in 1 .. Len(inner) : inner[j] = ByteAfterStatements(j)
  /\ (call.op = "get" /\ outcome = "ok") =>
       \A n \in 1 .. Len(hist) :
         (/\ hist[n].pos = call.pos
          /\ hist[n].kind = call.kind
          /\ hist[n].order = call.order
          /\ \A m \in 1 .. Len(hist) : m # n => ~Overlap(hist[m], hist[n]))
           => ret = Value(hist[n].val)

\* A chained set has overwritten part of what the set before it wrote.
ChainingWitness ==
  /\ Len(hist) = 2
  /\ call.op = "set"
  /\ call.chained
  /\ outcome = "ok"
  /\ Overlap(hist[1], hist[2])
  /\ hist[1].kind = "i32"
  /\ hist[2].kind = "i16"
  /\ hist[2].order = "be"
  /\ inner = <<4, 255, 254, 1>>

\* ------------------------------------------------------------------------
\* read_fill (SpecFill).
\* ------------------------------------------------------------------------

\* C9: the count read_fill returns is at most buf.len(), equals the lesser
\* of buf.len() and the bytes the stream had, and buf[0..count) holds the
\* first bytes of the stream in stream order, whatever the reader gives
\* per read call.
ReadFillFillsBuf ==
  fpc = "done" =>
    /\ nbytes <= Len(buf)
    /\ nbytes = Min(Len(buf), Len(stream))
    /\ \A i \in 1 .. Min(nbytes, Len(buf)) : buf[i] = stream[i]

\* ------------------------------------------------------------------------
\* Combine (SpecCombine).
\* ------------------------------------------------------------------------

ReadInterface == {"read", "read_to_end"}

WriteInterface == {"write", "write_all", "flush"}

SeekInterface == {"seek", "rewind", "stream_position"}

ForReader(c) == c.op \in ReadInterface \cup SeekInterface

\* A seek the reader end refuses returns the error at once: it is not held
\* against the forwarding to the writer end.
ForWriter(c) ==
  c.op \in WriteInterface \/ (c.op \in SeekInterface /\ c.ok)

Ops(log) == [i \in 1 .. Len(log) |-> log[i].op]

\* C10: every call to the Seek interface of a Combine (seek, rewind,
\* stream_position) is forwarded to both ends, every Read call to the
\* reader end only and every Write call to the writer end only.
SeekForwardedToBoth ==
  /\ rlog = Ops(SelectSeq(clog, ForReader))
  /\ wlog = Ops(SelectSeq(clog, ForWriter))

\* ------------------------------------------------------------------------
\* The codec on streams (SpecStream).
\* ------------------------------------------------------------------------

ReadBytesOf(order, k, b) ==
  IF order = "le" THEN read_bytes_le(k, b) ELSE read_bytes_be(k, b)

WriteBytesOf(order, k, v, b) ==
  IF order = "le" THEN write_bytes_le(k, v, b) ELSE write_bytes_be(k, v, b)

\* C11: read_from_le / read_from_be on a stream holding s returns Ok of
\* what read_bytes_le / read_bytes_be returns on the first W bytes of s when
\* s has W bytes, and an I/O error, not a panic, when it has fewer;
\* write_to_le / write_to_be emit exactly the W bytes write_bytes_le /
\* write_bytes_be store, and fail only on a writer with room for fewer.
StreamCodecAgrees ==
  /\ scall.op = "read_from" =>
       LET W == Width(scall.kind)
       IN  IF Len(src) >= W
             THEN /\ scall.ok
                  /\ ~ReadBytesOf(scall.order, scall.kind, SubSeq(src, 1, W)).panic
                  /\ scall.val =
                       ReadBytesOf(scall.order, scall.kind, SubSeq(src, 1, W)).val
             ELSE /\ ~scall.ok
                  /\ ReadBytesOf(scall.order, scall.kind, src).panic
  /\ scall.op = "write_to" =>
       LET W == Width(scall.kind)
           stored == WriteBytesOf(scall.order, scall.kind, scall.val, Zeroed(W))
       IN  IF scall.ok
             THEN /\ ~stored.panic
                  /\ sink.data = stored.bytes
             ELSE /\ sink.room = 0
                  /\ Len(sink.data) < W
                  /\ sink.data = SubSeq(stored.bytes, 1, Len(sink.data))

\* An f64 has been read big-endian from a stream longer than it.
StreamCodecReadWitness ==
  /\ scall.op = "read_from"
  /\ scall.kind = "f64"
  /\ scall.order = "be"
  /\ scall.ok
  /\ Len(src) > Width("f64")
  /\ scall.val # read_from_le("f64", src).val

\* ------------------------------------------------------------------------
\* into_inner (SpecChain).
\* ------------------------------------------------------------------------

\* The region of the storage a set call wrote.
RegionOf(c) == (c.pos + 1) .. (c.pos + Width(c.kind))

\* C12: into_inner returns the storage with the bytes the view held at the
\* call: every value the successful set calls wrote is there (the later
\* call's where two regions share a byte), no other byte differs from the
\* storage the view was built on, and with no set call it is that storage.
IntoInnerReturnsStorage ==
  call.op = "into_inner" =>
    /\ ret = Value(before)
    /\ ret = Value(inner)
    /\ Len(ret.val) = Len(start)
    /\ \A j \in 1 .. Len(start) : ret.val[j] = ByteAfterStatements(j)
    /\ \A j \in 1 .. Len(start) :
         (\A n \in 1 .. Len(hist) : j \notin RegionOf(hist[n]))
           => ret.val[j] = start[j]
    /\ hist = <<>> => ret = Value(start)

\* The crate's test: a zero-filled storage of 4 bytes, set_le(0, 42 as i32),
\* into_inner gives 42, 0, 0, 0.
IntoInnerWitness ==
  /\ call.op = "into_inner"
  /\ start = Zeroed(ChainLen)
  /\ hist = <<[order |-> "le", pos |-> 0, kind |-> "i32", val |-> 42]>>
  /\ ret = Value(<<42, 0, 0, 0>>)

\* ------------------------------------------------------------------------
\* The number of reads read_fill makes (SpecFill).
\* ------------------------------------------------------------------------

\* C13: while every read returns Ok, read_fill stops as soon as a read
\* returns 0 or buf is full, so it makes at most buf.len() + 1 read calls,
\* however few bytes each call delivers.
ReadFillReadsBounded ==
  fpc \in {"loop", "done"} =>
    /\ reads <= Len(buf) + 1
    /\ (fpc = "loop" /\ LoopCondition) => nbytes < Len(buf)

=============================================================================
